---------------------------- MODULE Spec2Model ----------------------------
(***************************************************************************)
(* The chat relay server of cmd/server/server.go (src/unnamed/part_001)    *)
(* with the clients of src/cmd/client/client.go as its environment.        *)
(*                                                                         *)
(* Goroutines of the server: listen_for_connections (the accept loop, with *)
(* receive_connection inlined), one receive_messages per admitted          *)
(* connection (the pipelines) and process_message_queue (the router).      *)
(* They share the map `connections` (no lock in the code) and the channel  *)
(* message_queue.                                                          *)
(*                                                                         *)
(* A string is modelled as a record [id, len]: its identity and its length *)
(* in bytes, so that lengths of 65536 bytes and more need no 65536-element *)
(* sequence.                                                               *)
(*                                                                         *)
(* Spec is the server with all the inputs of the peers; FairSpec is the    *)
(* server with fewer inputs and fair scheduling of its goroutines, for the *)
(* properties of progress; SpecRegistry applies delete on the map alone.   *)
(***************************************************************************)
EXTENDS Integers, Sequences, FiniteSets, TLC

\* ------------------------------------------------------------- bounds
\* Number of TCP connections the environment opens in a run.
MaxConns == 2
\* Total number of envelopes the clients write in a run.
MaxMsgs == 2
\* Capacity of the channel in the model (the code's is QUEUE_CAPACITY).
MaxQueue == 1

\* -------------------------------------------------- program constants
MAX_USERNAME_LENGTH == 32
MAX_MESSAGE_LENGTH == 2048
QUEUE_CAPACITY == 256
\* uint16(x) and uint8(x) of a non-negative int
Uint16(n) == n % 65536
Uint8(n) == n % 256

Min(a, b) == IF a < b THEN a ELSE b
\* capacity of the channel as modelled
Capacity == Min(QUEUE_CAPACITY, MaxQueue)

Conns == 1 .. MaxConns

\* ------------------------------------------------------------ strings
Str(i, n) == [id |-> i, len |-> n]
EmptyStr == Str("", 0)
Alice == Str("alice", 5)
Bob == Str("bob", 3)
Carol == Str("carol", 5)
\* names of 32 and 33 bytes, and recipients of 33 and 65536 bytes
Name32 == Str("name32", 32)
Name33 == Str("name33", 33)
To33 == Str("to33", 33)
To65536 == Str("to65536", 65536)
Hi == Str("hi", 2)
Body2048 == Str("body2048", 2048)
Body2049 == Str("body2049", 2049)
Body67584 == Str("body67584", 67584)

\* The names a client may send in its handshake.
HelloNames == {Alice, Bob, Name32, Name33}

\* type Message struct { To, From, Content string; Error bool }
Message(to, from, content, err) ==
    [To |-> to, From |-> from, Content |-> content, Error |-> err]

\* The envelopes a peer may put on the wire: the client's own
\* (send_message: From empty, Error false) and those of a peer that is not
\* the client (any From, any Error, any lengths).
WireMsgs ==
    { Message(Bob, EmptyStr, Hi, FALSE),
      Message(Carol, EmptyStr, Hi, FALSE),
      Message(Alice, Bob, Hi, TRUE),
      Message(Name32, EmptyStr, Body2048, FALSE),
      Message(To33, EmptyStr, Hi, FALSE),
      Message(To65536, EmptyStr, Hi, FALSE),
      Message(Bob, EmptyStr, Body2049, FALSE),
      Message(Bob, EmptyStr, Body67584, FALSE) }

\* An envelope on its way to the server. The field n is not in the code: it
\* numbers the envelopes in the order the peers wrote them.
Written(w, k) ==
    [To |-> w.To, From |-> w.From, Content |-> w.Content, Error |-> w.Error,
     n |-> k]

\* Bytes in the stream of a connection that are not the start of an
\* envelope (what is left of an envelope or of a name partly consumed).
Torn == [torn |-> TRUE]

NoMsg == [none |-> TRUE]
NoName == Str("<none>", 0)
NoFatal == [at |-> "none", by |-> "none"]

\* -------------------------------------------------------------- state
VARIABLES
    \* environment: the peers
    client,       \* client[c]: what the peer has written: "idle" (not connected),
                  \* "dialed" (nothing), "sized" (the length byte), "hello" (the name)
    hung,         \* hung[c]: the peer has closed its end
    hello,        \* hello[c]: the name of the peer's handshake, or NoName
    inbox,        \* inbox[c]: what the peer wrote and the server has not read
    outbox,       \* outbox[c]: envelopes the server wrote to c, in order
    sent,         \* number of envelopes written by the peers so far
    backlog,      \* connections waiting in ln.Accept
    \* server
    connections,  \* the map: name -> connection (the Connection's conn)
    mq,           \* the channel message_queue
    username,     \* username[c]: Connection.username of c, or NoName
    srvClosed,    \* srvClosed[c]: the server called conn.Close() on c
    lpc, lcur,    \* accept loop: position, connection at hand (0: none)
    rpc, rmsg,    \* pipeline of c: position, envelope held for the push
    qpc, qmsg, qconn,  \* router: position, envelope at hand, connection looked up
    qlast,        \* what the router did with the envelope it handled last
    fatal         \* NoFatal, or how the process ended (log.Fatal, runtime throw)

vars == << client, hung, hello, inbox, outbox, sent, backlog, connections, mq,
           username, srvClosed, lpc, lcur, rpc, rmsg, qpc, qmsg, qconn, qlast,
           fatal >>

Init ==
    /\ client = [c \in Conns |-> "idle"]
    /\ hung = [c \in Conns |-> FALSE]
    /\ hello = [c \in Conns |-> NoName]
    /\ inbox = [c \in Conns |-> << >>]
    /\ outbox = [c \in Conns |-> << >>]
    /\ sent = 0
    /\ backlog = << >>
    /\ connections = [n \in {} |-> 0]
    /\ mq = << >>
    /\ username = [c \in Conns |-> NoName]
    /\ srvClosed = [c \in Conns |-> FALSE]
    /\ lpc = "accept"
    /\ lcur = 0
    /\ rpc = [c \in Conns |-> "none"]
    /\ rmsg = [c \in Conns |-> NoMsg]
    /\ qpc = "recv"
    /\ qmsg = NoMsg
    /\ qconn = 0
    /\ qlast = "none"
    /\ fatal = NoFatal

Running == fatal = NoFatal

\* -------------------------------------------------------- environment
\* net.Dial of setup_connection: the connection waits in the listener.
\* Connections are numbered in the order they are opened.
Dial(c) ==
    /\ Running
    /\ client[c] = "idle"
    /\ \A d \in Conns : d < c => client[d] # "idle"
    /\ client' = [client EXCEPT ![c] = "dialed"]
    /\ backlog' = Append(backlog, c)
    /\ UNCHANGED << hung, hello, inbox, outbox, sent, connections, mq, username,
                    srvClosed, lpc, lcur, rpc, rmsg, qpc, qmsg, qconn, qlast, fatal >>

\* The first write of setup_connection: uint8(len(username)).
HelloSize(c, n) ==
    /\ Running
    /\ ~hung[c]
    /\ client[c] = "dialed"
    /\ client' = [client EXCEPT ![c] = "sized"]
    /\ hello' = [hello EXCEPT ![c] = n]
    /\ UNCHANGED << hung, inbox, outbox, sent, backlog, connections, mq,
                    username, srvClosed, lpc, lcur, rpc, rmsg, qpc, qmsg,
                    qconn, qlast, fatal >>

\* The second write of setup_connection: the bytes of the name.
HelloName(c) ==
    /\ Running
    /\ ~hung[c]
    /\ client[c] = "sized"
    /\ client' = [client EXCEPT ![c] = "hello"]
    /\ UNCHANGED << hung, hello, inbox, outbox, sent, backlog, connections, mq,
                    username, srvClosed, lpc, lcur, rpc, rmsg, qpc, qmsg,
                    qconn, qlast, fatal >>

\* send_message: one gob-encoded envelope written to the connection.
Send(c, w) ==
    /\ Running
    /\ ~hung[c]
    /\ client[c] = "hello"
    /\ sent < MaxMsgs
    /\ sent' = sent + 1
    /\ inbox' = [inbox EXCEPT ![c] = Append(@, Written(w, sent + 1))]
    /\ UNCHANGED << client, hung, hello, outbox, backlog, connections, mq,
                    username, srvClosed, lpc, lcur, rpc, rmsg, qpc, qmsg,
                    qconn, qlast, fatal >>

\* The peer closes its end (exit, crash, reset).
Hangup(c) ==
    /\ Running
    /\ ~hung[c]
    /\ client[c] # "idle"
    /\ hung' = [hung EXCEPT ![c] = TRUE]
    /\ UNCHANGED << client, hello, inbox, outbox, sent, backlog, connections,
                    mq, username, srvClosed, lpc, lcur, rpc, rmsg, qpc, qmsg,
                    qconn, qlast, fatal >>

\* ------------------------------------------------- writes of the server
\* enc.Encode(e) on connection c returns nil: the peer receives e. A write
\* on a connection the server closed always fails.
WriteOk(c, e) ==
    /\ ~srvClosed[c]
    /\ outbox' = [outbox EXCEPT ![c] = Append(@, e)]
    /\ fatal' = fatal

\* enc.Encode(e) on connection c returns an error (the server closed c, or
\* the peer closed or reset it) and the caller calls log.Fatal(err).
WriteFatal(c, e, where, who) ==
    /\ srvClosed[c] \/ hung[c]
    /\ outbox' = outbox
    /\ fatal' = [at |-> where, by |-> who, conn |-> c, env |-> e]

\* msg := Message{"", "", error_msg, true}
ErrorMessage(content) == Message(EmptyStr, EmptyStr, content, TRUE)

UsernameTaken == [id |-> "Username is taken", len |-> 18]
\* fmt.Sprintf("'%s' is not connected\n", msg.To)
NotConnected(to) == [id |-> "is not connected", len |-> to.len + 20, name |-> to]

\* ---------------------------------------------------------- the map
\* _, ok := connections[name]
Present(name) == name \in DOMAIN connections
\* connections[name] = conn
Insert(name, c) ==
    [n \in DOMAIN connections \cup {name} |->
        IF n = name THEN c ELSE connections[n]]
\* A removal that empties the map.
Delete_All(name) == [n \in {} |-> 0]

\* delete(connections, name)
Delete(name) == [n \in DOMAIN connections \ {name} |-> connections[n]]

\* ------------------------------------------ listen_for_connections
\* ln.Accept() returns the next connection.
Accept ==
    /\ Running
    /\ lpc = "accept"
    /\ backlog # << >>
    /\ lcur' = Head(backlog)
    /\ backlog' = Tail(backlog)
    /\ lpc' = "read_size"
    /\ UNCHANGED << client, hung, hello, inbox, outbox, sent, connections, mq,
                    username, srvClosed, rpc, rmsg, qpc, qmsg, qconn, qlast, fatal >>

\* The length check with >= in the place of >.
NameTooLong_Ge(n) == Uint8(n.len) >= Uint8(MAX_USERNAME_LENGTH)

\* username_size > uint8(common.MAX_USERNAME_LENGTH)
NameTooLong(n) == Uint8(n.len) > Uint8(MAX_USERNAME_LENGTH)

\* binary.Read of username_size and the length check. Blocks until the
\* peer has written the byte or closed.
ReadSize ==
    /\ Running
    /\ lpc = "read_size"
    /\ \/ /\ client[lcur] \in {"sized", "hello"}
          /\ ~NameTooLong(hello[lcur])
          /\ lpc' = "read_name"
          /\ UNCHANGED << lcur, srvClosed >>
       \/ /\ \/ client[lcur] \in {"sized", "hello"} /\ NameTooLong(hello[lcur])
             \/ client[lcur] = "dialed" /\ hung[lcur]
          /\ srvClosed' = [srvClosed EXCEPT ![lcur] = TRUE]
          /\ lpc' = "accept"
          /\ lcur' = 0
    /\ UNCHANGED << client, hung, hello, inbox, outbox, sent, backlog,
                    connections, mq, username, rpc, rmsg, qpc, qmsg, qconn,
                    qlast, fatal >>

\* string(raw_data) when conn.Read returned fewer bytes than len(raw_data):
\* the first bytes of the name n and zero bytes up to its length.
Padded(n) == [id |-> n.id, len |-> n.len, padded |-> TRUE]

\* What string(raw_data) can be after the one conn.Read(raw_data) when the
\* peer wrote the name n: a Read returns what has arrived, at least one
\* byte and at most len(raw_data).
NamesRead(n) == {n} \cup (IF n.len >= 2 THEN {Padded(n)} ELSE {})

\* raw_data := make([]byte, username_size); conn.Read(raw_data) and the
\* return of Connection{username, conn}, or of the read's error once the
\* peer has closed without the name. Blocks until then. After a short
\* read the rest of the name is still in the stream.
ReadName ==
    /\ Running
    /\ lpc = "read_name"
    /\ \/ /\ client[lcur] = "hello"
          /\ \E u \in NamesRead(hello[lcur]) :
                /\ username' = [username EXCEPT ![lcur] = u]
                /\ inbox' = IF u = hello[lcur] THEN inbox
                            ELSE [inbox EXCEPT ![lcur] = << Torn >> \o @]
          /\ lpc' = "lookup"
          /\ UNCHANGED << lcur, srvClosed >>
       \/ /\ client[lcur] = "sized" /\ hung[lcur]
          /\ srvClosed' = [srvClosed EXCEPT ![lcur] = TRUE]
          /\ lpc' = "accept"
          /\ lcur' = 0
          /\ UNCHANGED << username, inbox >>
    /\ UNCHANGED << client, hung, hello, outbox, sent, backlog,
                    connections, mq, rpc, rmsg, qpc, qmsg, qconn, qlast,
                    fatal >>

\* The check left out: every name is taken to be free.
Taken_Never(c) == FALSE

\* _, ok := connections[conn.username]
Taken(c) == Present(username[c])

\* if ok { send_error...; continue } else the insert
Lookup ==
    /\ Running
    /\ lpc = "lookup"
    /\ lpc' = IF Taken(lcur) THEN "taken" ELSE "insert"
    /\ UNCHANGED << client, hung, hello, inbox, outbox, sent, backlog, connections,
                    mq, username, srvClosed, lcur, rpc, rmsg, qpc, qmsg,
                    qconn, qlast, fatal >>

\* send_error(conn.conn, "Username is taken\n"); conn.conn.Close(); continue
Reject ==
    /\ Running
    /\ lpc = "taken"
    /\ \/ /\ WriteOk(lcur, ErrorMessage(UsernameTaken))
          /\ srvClosed' = [srvClosed EXCEPT ![lcur] = TRUE]
          /\ lpc' = "accept"
          /\ lcur' = 0
       \/ /\ WriteFatal(lcur, ErrorMessage(UsernameTaken), "send_error", "accept")
          /\ UNCHANGED << srvClosed, lpc, lcur >>
    /\ UNCHANGED << client, hung, hello, inbox, sent, backlog, connections, mq,
                    username, rpc, rmsg, qpc, qmsg, qconn, qlast >>

\* connections[conn.username] = conn; go receive_messages(connections, conn, mq)
Admit ==
    /\ Running
    /\ lpc = "insert"
    /\ connections' = Insert(username[lcur], lcur)
    /\ rpc' = [rpc EXCEPT ![lcur] = "decode"]
    /\ lpc' = "accept"
    /\ lcur' = 0
    /\ UNCHANGED << client, hung, hello, inbox, outbox, sent, backlog, mq, username,
                    srvClosed, rmsg, qpc, qmsg, qconn, qlast, fatal >>

\* ------------------------------------------------- receive_messages
\* to_size := uint16(len(msg.To)); msg_size := uint16(len(msg.Content)) and
\* the two checks that break out of the loop.
Violation(msg) ==
    \/ Uint16(msg.To.len) > Uint16(MAX_USERNAME_LENGTH)
    \/ Uint16(msg.Content.len) > Uint16(MAX_MESSAGE_LENGTH)

\* The From of the wire kept as the peer wrote it.
Stamp_WireFrom(msg, c) ==
    [To |-> msg.To, From |-> msg.From, Content |-> msg.Content,
     Error |-> msg.Error, n |-> msg.n, src |-> c]

\* msg.From = conn.username. The fields n and src are not in the code: src
\* records the connection whose pipeline pushed the envelope.
Stamp(msg, c) ==
    [To |-> msg.To, From |-> username[c], Content |-> msg.Content,
     Error |-> msg.Error, n |-> msg.n, src |-> c]

\* dec := gob.NewDecoder(conn.conn): conn.conn is no io.ByteReader, so the
\* decoder reads it through a buffer of its own, filled with whatever has
\* arrived (up to 4096 bytes a read), and the buffer goes with the decoder
\* at the end of the iteration. What can be left in the stream s after one
\* Decode: all that follows the first envelope, or less, when envelopes
\* that follow had arrived and went into the buffer, whole (dropped from s)
\* or in part (Torn is left).
Leftovers(s) ==
    {SubSeq(s, j, Len(s)) : j \in 2 .. Len(s) + 1}
        \cup {<< Torn >> \o SubSeq(s, j + 1, Len(s)) : j \in 2 .. Len(s)}

\* A decoder that returns the envelope written last.
NextEnvelope_Last(s) == s[Len(s)]

\* The envelope dec.Decode(&msg) returns: the one the stream starts with.
NextEnvelope(s) == Head(s)

\* dec.Decode(&msg) and the checks: the next envelope of the stream, or an
\* error: io.EOF once the peer has closed and nothing is left to read, a
\* decoding error when the stream does not start with an envelope.
Decode(c) ==
    /\ Running
    /\ rpc[c] = "decode"
    /\ \/ /\ inbox[c] # << >>
          /\ Head(inbox[c]) # Torn
          /\ \E rest \in Leftovers(inbox[c]) :
                inbox' = [inbox EXCEPT ![c] = rest]
          /\ IF Violation(NextEnvelope(inbox[c]))
             THEN /\ rpc' = [rpc EXCEPT ![c] = "close"]
                  /\ rmsg' = rmsg
             ELSE /\ rpc' = [rpc EXCEPT ![c] = "push"]
                  /\ rmsg' = [rmsg EXCEPT ![c] =
                                 Stamp(NextEnvelope(inbox[c]), c)]
       \/ /\ inbox[c] # << >>
          /\ Head(inbox[c]) = Torn
          /\ inbox' = [inbox EXCEPT ![c] = Tail(@)]
          /\ rpc' = [rpc EXCEPT ![c] = "close"]
          /\ rmsg' = rmsg
       \/ /\ inbox[c] = << >>
          /\ hung[c]
          /\ rpc' = [rpc EXCEPT ![c] = "close"]
          /\ UNCHANGED << inbox, rmsg >>
    /\ UNCHANGED << client, hung, hello, outbox, sent, backlog, connections, mq,
                    username, srvClosed, lpc, lcur, qpc, qmsg, qconn, qlast, fatal >>

\* mq <- msg: blocks while the channel is full.
Push(c) ==
    /\ Running
    /\ rpc[c] = "push"
    /\ Len(mq) < Capacity
    /\ mq' = Append(mq, rmsg[c])
    /\ rmsg' = [rmsg EXCEPT ![c] = NoMsg]
    /\ rpc' = [rpc EXCEPT ![c] = "decode"]
    /\ UNCHANGED << client, hung, hello, inbox, outbox, sent, backlog, connections,
                    username, srvClosed, lpc, lcur, qpc, qmsg, qconn, qlast, fatal >>

\* conn.conn.Close()
CloseConn(c) ==
    /\ Running
    /\ rpc[c] = "close"
    /\ srvClosed' = [srvClosed EXCEPT ![c] = TRUE]
    /\ rpc' = [rpc EXCEPT ![c] = "delete"]
    /\ UNCHANGED << client, hung, hello, inbox, outbox, sent, backlog, connections,
                    mq, username, lpc, lcur, rmsg, qpc, qmsg, qconn, qlast, fatal >>

\* delete(connections, conn.username)
Unregister(c) ==
    /\ Running
    /\ rpc[c] = "delete"
    /\ connections' = Delete(username[c])
    /\ rpc' = [rpc EXCEPT ![c] = "done"]
    /\ UNCHANGED << client, hung, hello, inbox, outbox, sent, backlog, mq, username,
                    srvClosed, lpc, lcur, rmsg, qpc, qmsg, qconn, qlast, fatal >>

\* --------------------------------------------- process_message_queue
\* The envelope as encoded on the wire: the four fields of Message.
Wire(m) == Message(m.To, m.From, m.Content, m.Error)

\* msg, ok := <-mq
Recv ==
    /\ Running
    /\ qpc = "recv"
    /\ mq # << >>
    /\ qmsg' = Head(mq)
    /\ mq' = Tail(mq)
    /\ qpc' = "lookup_to"
    /\ UNCHANGED << client, hung, hello, inbox, outbox, sent, backlog, connections,
                    username, srvClosed, lpc, lcur, rpc, rmsg, qconn, qlast, fatal >>

\* to, ok := connections[msg.To]
LookupTo ==
    /\ Running
    /\ qpc = "lookup_to"
    /\ IF Present(qmsg.To)
       THEN qpc' = "forward" /\ qconn' = connections[qmsg.To]
       ELSE qpc' = "lookup_from" /\ qconn' = 0
    /\ qlast' = qlast
    /\ UNCHANGED << client, hung, hello, inbox, outbox, sent, backlog, connections,
                    mq, username, srvClosed, lpc, lcur, rpc, rmsg, qmsg, fatal >>

\* The absent sender treated as a fatal error.
Drop_Fatal ==
    /\ fatal' = [at |-> "send_error", by |-> "router", conn |-> 0, env |-> qmsg]
    /\ UNCHANGED << qpc, qconn, qmsg, qlast, outbox >>

\* The envelope kept, to be tried again.
Drop_Keep ==
    /\ qpc' = "lookup_to"
    /\ qconn' = 0
    /\ qmsg' = qmsg
    /\ qlast' = qlast
    /\ UNCHANGED << outbox, fatal >>

\* if !ok { fmt.Fprintf("Sender %s does not exist either. Dropping message\n"); continue }
Drop ==
    /\ qpc' = "recv"
    /\ qconn' = 0
    /\ qmsg' = NoMsg
    /\ qlast' = "dropped"
    /\ UNCHANGED << outbox, fatal >>

\* from, ok := connections[msg.From]; if !ok { ...; continue }
LookupFrom ==
    /\ Running
    /\ qpc = "lookup_from"
    /\ IF Present(qmsg.From)
       THEN /\ qpc' = "bounce"
            /\ qconn' = connections[qmsg.From]
            /\ UNCHANGED << qmsg, qlast, outbox, fatal >>
       ELSE Drop
    /\ UNCHANGED << client, hung, hello, inbox, sent, backlog, connections, mq,
                    username, srvClosed, lpc, lcur, rpc, rmsg >>

\* The bounce written as an ordinary message.
BounceMessage_NoFlag(m) ==
    Message(EmptyStr, EmptyStr, NotConnected(m.To), FALSE)

\* The envelope send_error writes for an absent recipient.
BounceMessage(m) == ErrorMessage(NotConnected(m.To))

\* send_error(from.conn, fmt.Sprintf("'%s' is not connected\n", msg.To)); continue
Bounce ==
    /\ Running
    /\ qpc = "bounce"
    /\ \/ /\ WriteOk(qconn, BounceMessage(qmsg))
          /\ qpc' = "recv"
          /\ qmsg' = NoMsg
          /\ qconn' = 0
          /\ qlast' = "bounced"
       \/ /\ WriteFatal(qconn, BounceMessage(qmsg), "send_error", "router")
          /\ UNCHANGED << qpc, qmsg, qconn, qlast >>
    /\ UNCHANGED << client, hung, hello, inbox, sent, backlog, connections, mq,
                    username, srvClosed, lpc, lcur, rpc, rmsg >>

\* The envelope the router encodes for the recipient.
ForwardMessage(m) == Wire(m)

\* enc := gob.NewEncoder(to.conn); err := enc.Encode(msg); log.Fatal(err)
Forward ==
    /\ Running
    /\ qpc = "forward"
    /\ \/ /\ WriteOk(qconn, ForwardMessage(qmsg))
          /\ qpc' = "recv"
          /\ qmsg' = NoMsg
          /\ qconn' = 0
          /\ qlast' = "forwarded"
       \/ /\ WriteFatal(qconn, ForwardMessage(qmsg), "forward", "router")
          /\ UNCHANGED << qpc, qmsg, qconn, qlast >>
    /\ UNCHANGED << client, hung, hello, inbox, sent, backlog, connections, mq,
                    username, srvClosed, lpc, lcur, rpc, rmsg >>

\* ------------------------------------------- the map is not locked
\* The goroutines that are executing an operation on `connections`: the
\* accept loop's lookup and insert, a pipeline's delete, the router's
\* lookups. A goroutine at such a position has nothing to wait for.
MapReaders ==
    (IF lpc = "lookup" THEN {<< "accept", 0 >>} ELSE {})
        \cup (IF qpc \in {"lookup_to", "lookup_from"}
              THEN {<< "router", 0 >>} ELSE {})
MapWriters ==
    (IF lpc = "insert" THEN {<< "accept", 0 >>} ELSE {})
        \cup {<< "pipeline", c >> : c \in {d \in Conns : rpc[d] = "delete"}}
InMap == MapReaders \cup MapWriters

\* Two operations on the map at the same time, one of them a write: the Go
\* runtime may end the process ("fatal error: concurrent map read and map
\* write", "concurrent map writes"). When it does not, the operations take
\* effect in one order or the other (the actions above).
MapRace ==
    /\ Running
    /\ \E w \in MapWriters : InMap \ {w} # {}
    /\ fatal' = [at |-> "concurrent map access", by |-> "runtime"]
    /\ UNCHANGED << client, hung, hello, inbox, outbox, sent, backlog, connections,
                    mq, username, srvClosed, lpc, lcur, rpc, rmsg, qpc, qmsg,
                    qconn, qlast >>

\* ------------------------------------------------------ specification
Next ==
    \/ \E c \in Conns : Dial(c)
    \/ \E c \in Conns, n \in HelloNames : HelloSize(c, n)
    \/ \E c \in Conns : HelloName(c)
    \/ \E c \in Conns, w \in WireMsgs : Send(c, w)
    \/ \E c \in Conns : Hangup(c)
    \/ Accept
    \/ ReadSize
    \/ ReadName
    \/ Lookup
    \/ Reject
    \/ Admit
    \/ \E c \in Conns : Decode(c)
    \/ \E c \in Conns : Push(c)
    \/ \E c \in Conns : CloseConn(c)
    \/ \E c \in Conns : Unregister(c)
    \/ Recv
    \/ LookupTo
    \/ LookupFrom
    \/ Bounce
    \/ Forward
    \/ MapRace

Spec == Init /\ [][Next]_vars

\* The goroutines of the server are scheduled fairly: one that can take its
\* next step takes it. A sender blocked on the full channel waits in the
\* channel's queue of senders and is served when there is room (strong
\* fairness of Push). Nothing is assumed of the peers, nor of the outcome
\* of a race on the map.
Fairness ==
    /\ WF_vars(Accept) /\ WF_vars(ReadSize) /\ WF_vars(ReadName)
    /\ WF_vars(Lookup) /\ WF_vars(Reject) /\ WF_vars(Admit)
    /\ \A c \in Conns :
          /\ WF_vars(Decode(c)) /\ SF_vars(Push(c))
          /\ WF_vars(CloseConn(c)) /\ WF_vars(Unregister(c))
    /\ WF_vars(Recv) /\ WF_vars(LookupTo) /\ WF_vars(LookupFrom)
    /\ WF_vars(Bounce) /\ WF_vars(Forward)

\* The server with fewer inputs of the peers, for the properties of
\* progress: one name, an envelope to it and an envelope to a name nobody
\* registers.
LiveNames == {Alice}
LiveMsgs == { Message(Alice, Bob, Hi, TRUE), Message(Carol, EmptyStr, Hi, FALSE) }

LiveNext ==
    \/ \E c \in Conns : Dial(c)
    \/ \E c \in Conns, n \in LiveNames : HelloSize(c, n)
    \/ \E c \in Conns : HelloName(c)
    \/ \E c \in Conns, w \in LiveMsgs : Send(c, w)
    \/ \E c \in Conns : Hangup(c)
    \/ Accept
    \/ ReadSize
    \/ ReadName
    \/ Lookup
    \/ Reject
    \/ Admit
    \/ \E c \in Conns : Decode(c)
    \/ \E c \in Conns : Push(c)
    \/ \E c \in Conns : CloseConn(c)
    \/ \E c \in Conns : Unregister(c)
    \/ Recv
    \/ LookupTo
    \/ LookupFrom
    \/ Bounce
    \/ Forward
    \/ MapRace

FairSpec == Init /\ [][LiveNext]_vars /\ Fairness

\* delete(connections, name) on its own: the map and the names are drawn
\* from all maps and names over RegistryNames and Conns, every connection
\* stands before its delete, and the deletes are applied in any order.
RegistryNames == {Alice, Bob, Name32}
RegistryMaps == UNION {[S -> Conns] : S \in SUBSET RegistryNames}

InitRegistry ==
    /\ client = [c \in Conns |-> "hello"]
    /\ hung = [c \in Conns |-> TRUE]
    /\ hello = [c \in Conns |-> NoName]
    /\ inbox = [c \in Conns |-> << >>]
    /\ outbox = [c \in Conns |-> << >>]
    /\ sent = 0
    /\ backlog = << >>
    /\ connections \in RegistryMaps
    /\ mq = << >>
    /\ username \in [Conns -> RegistryNames]
    /\ srvClosed = [c \in Conns |-> TRUE]
    /\ lpc = "accept"
    /\ lcur = 0
    /\ rpc = [c \in Conns |-> "delete"]
    /\ rmsg = [c \in Conns |-> NoMsg]
    /\ qpc = "recv"
    /\ qmsg = NoMsg
    /\ qconn = 0
    /\ qlast = "none"
    /\ fatal = NoFatal

NextRegistry == \E c \in Conns : Unregister(c)

SpecRegistry == InitRegistry /\ [][NextRegistry]_vars

\* ============================================================ claims
\* The pipeline of c has been started and has not yet deleted its name.
PipelineRunning(c) == rpc[c] \in {"decode", "push", "close", "delete"}

\* A step of the accept loop (of listen_for_connections itself).
AcceptStep == lpc' # lpc \/ (fatal' # fatal /\ fatal'.by = "accept")
\* A step of the router (of process_message_queue itself).
RouterStep == qpc' # qpc \/ (fatal' # fatal /\ fatal'.by = "router")

\* ---- C1
C1_Registered ==
    /\ \A c \in Conns :
          PipelineRunning(c) =>
              Present(username[c]) /\ connections[username[c]] = c
    /\ \A c, d \in Conns :
          (PipelineRunning(c) /\ PipelineRunning(d)
              /\ username[c] = username[d]) => c = d
    /\ \A n \in DOMAIN connections : username[connections[n]] = n

C1_AttemptFails ==
    /\ (lpc = "lookup" /\ Present(username[lcur]) /\ AcceptStep) =>
          (lpc' = "taken" /\ connections' = connections)
    /\ (lpc = "taken" /\ AcceptStep) =>
          (connections' = connections /\ rpc' = rpc /\ lpc' # "insert")

\* C1: name uniqueness. In every reachable state every running pipeline is
\* the one connection the registry holds under its name, so no name has two
\* holders or two running pipelines; and an admission attempt under a name
\* that is registered goes to the "name taken" branch and leaves the
\* registry as it is.
C1_NameUniqueness == []C1_Registered /\ [][C1_AttemptFails]_vars

\* C1 witness: a second connection asked for a name that a running pipeline
\* holds, was rejected and closed, and the name still maps to the first.
C1_Witness ==
    \E c, d \in Conns :
        /\ c # d
        /\ username[c] = username[d]
        /\ PipelineRunning(c)
        /\ connections[username[c]] = c
        /\ rpc[d] = "none"
        /\ srvClosed[d]
        /\ outbox[d] = << ErrorMessage(UsernameTaken) >>

\* ---- C2
\* C2: sender identity. Every envelope in the channel, and the envelope the
\* router has dequeued, carries as From the username of the connection
\* whose pipeline pushed it.
C2_SenderIdentity ==
    /\ \A i \in 1 .. Len(mq) : mq[i].From = username[mq[i].src]
    /\ qmsg # NoMsg => qmsg.From = username[qmsg.src]

\* C2 witness: the router holds the envelope that was written with
\* From = "bob" by the peer registered as "alice".
C2_Witness ==
    /\ qmsg # NoMsg
    /\ qmsg.To = Alice /\ qmsg.Error
    /\ username[qmsg.src] = Alice
    /\ qmsg.From = Alice

\* ---- C3
\* C3: size invariant of the queue, as claimed: every envelope in the
\* channel has len(To) <= 32 and len(Content) <= 2048.
C3_QueueWithinLimits ==
    \A i \in 1 .. Len(mq) :
        /\ mq[i].To.len <= MAX_USERNAME_LENGTH
        /\ mq[i].Content.len <= MAX_MESSAGE_LENGTH

\* ---- C4
\* C4: delivery, as claimed. When the router forwards an envelope that A's
\* pipeline pushed and whose To is registered to B's open connection, B
\* receives one more envelope, with From A's name, the same Content and
\* Error false, and no other connection receives anything.
C4_Delivery ==
    [][(/\ qpc = "forward"
        /\ RouterStep
        /\ qmsg.src # qconn
        /\ Present(qmsg.To) /\ connections[qmsg.To] = qconn
        /\ ~srvClosed[qconn] /\ ~hung[qconn])
       => (/\ fatal' = fatal
           /\ \A c \in Conns \ {qconn} : outbox'[c] = outbox[c]
           /\ Len(outbox'[qconn]) = Len(outbox[qconn]) + 1
           /\ LET e == outbox'[qconn][Len(outbox'[qconn])]
              IN  /\ e.From = username[qmsg.src]
                  /\ e.Content = qmsg.Content
                  /\ e.Error = FALSE)]_vars

\* ---- C5
C5_BounceStep ==
    /\ (qpc = "lookup_to" /\ RouterStep /\ ~Present(qmsg.To)) =>
          (qpc' = "lookup_from" /\ qmsg' = qmsg /\ outbox' = outbox)
    /\ (qpc = "lookup_from" /\ RouterStep /\ Present(qmsg.From)) =>
          (/\ qpc' = "bounce"
           /\ qconn' = connections[qmsg.From]
           /\ qmsg' = qmsg
           /\ outbox' = outbox)
    /\ (qpc = "bounce" /\ RouterStep) =>
          /\ \A c \in Conns \ {qconn} : outbox'[c] = outbox[c]
          /\ \/ /\ fatal' = fatal
                /\ Len(outbox'[qconn]) = Len(outbox[qconn]) + 1
                /\ SubSeq(outbox'[qconn], 1, Len(outbox[qconn])) = outbox[qconn]
                /\ LET e == outbox'[qconn][Len(outbox'[qconn])]
                   IN  /\ e.Error = TRUE
                       /\ e.Content.id = "is not connected"
                       /\ e.Content.name = qmsg.To
             \/ /\ outbox' = outbox
                /\ fatal'.at = "send_error" /\ fatal'.conn = qconn
                /\ fatal'.env.Error = TRUE
                /\ fatal'.env.Content.name = qmsg.To

\* C5: bounce. When the router finds the To of the dequeued envelope absent
\* and its From present, it makes exactly one write, to the connection it
\* found under From and to no other, of an envelope with Error true whose
\* Content names To (the write delivers the envelope, or fails in
\* send_error and delivers nothing).
C5_Bounce == [][C5_BounceStep]_vars

\* C5 witness: "alice" has been sent the bounce for "carol".
C5_Witness ==
    /\ qlast = "bounced"
    /\ \E c \in Conns :
          /\ username[c] = Alice
          /\ outbox[c] = << ErrorMessage(NotConnected(Carol)) >>

\* ---- C6
\* C6: admission conflict, as claimed. The accept loop's step in the
\* "name taken" branch sends the peer the one error envelope, closes the
\* connection, starts no pipeline, enqueues nothing, leaves the registry
\* as it is, and the server goes on.
C6_AdmissionConflict ==
    [][(lpc = "taken" /\ AcceptStep)
       => (/\ outbox' = [outbox EXCEPT
                            ![lcur] = Append(@, ErrorMessage(UsernameTaken))]
           /\ srvClosed'[lcur]
           /\ rpc'[lcur] = "none"
           /\ mq' = mq
           /\ connections' = connections
           /\ fatal' = NoFatal)]_vars

\* ---- C7
\* C7: sender-gone race. When the router has found To absent and now finds
\* From absent too, its step drops the envelope: nothing is written to any
\* connection, the process does not end, and the router is back at the
\* receive of the next envelope.
C7_SenderGone ==
    [][(qpc = "lookup_from" /\ ~Present(qmsg.From) /\ RouterStep)
       => (/\ qpc' = "recv"
           /\ qmsg' = NoMsg
           /\ outbox' = outbox
           /\ mq' = mq
           /\ connections' = connections
           /\ fatal' = NoFatal)]_vars

\* C7 witness: the router dropped an envelope whose sender had unregistered,
\* no connection was written to and the router waits for the next envelope.
C7_Witness ==
    /\ qlast = "dropped"
    /\ qpc = "recv"
    /\ fatal = NoFatal
    /\ \A c \in Conns : outbox[c] = << >>
    /\ \E c \in Conns : rpc[c] = "done"

\* ---- C8
\* C8: forward write failure is log-and-drop, as claimed: a failed write of
\* a forwarded envelope never ends the server process.
C8_ForwardFailureContained == ~(fatal.by = "router" /\ fatal.at = "forward")

\* ---- C9
\* C9: error containment, as claimed: a failed write of an error envelope
\* (send_error, from the accept loop or from the router) never ends the
\* server process.
C9_ErrorWriteContained == fatal.at # "send_error"

\* ---- C10
\* C10: registry mutual exclusion, as claimed: at no time are two goroutines
\* executing an operation on the map `connections`.
C10_MapMutualExclusion == Cardinality(InMap) <= 1

\* ---- C11
\* The length byte the peer of c wrote: uint8(len(username)).
DeclaredSize(c) == Uint8(hello[c].len)

C11_ReadSizeStep ==
    (lpc = "read_size" /\ AcceptStep /\ client[lcur] \in {"sized", "hello"}) =>
        /\ DeclaredSize(lcur) > 32 =>
              /\ srvClosed'[lcur]
              /\ lpc' = "accept" /\ lcur' = 0
              /\ outbox' = outbox
              /\ connections' = connections
              /\ rpc' = rpc
              /\ mq' = mq
              /\ fatal' = fatal
        /\ DeclaredSize(lcur) = 32 =>
              /\ lpc' = "read_name" /\ lcur' = lcur
              /\ srvClosed' = srvClosed

\* C11: oversized name at admission. When the accept loop has read a length
\* byte greater than 32 its step closes the connection and goes back to
\* Accept (receive_connection returned an error): nothing is written to any
\* peer, the registry is unchanged, no pipeline is started. After a length
\* byte of exactly 32 the step goes on to read the name and closes nothing.
C11_OversizedName == [][C11_ReadSizeStep]_vars

\* C11 witness: the connection that declared 33 bytes was closed without a
\* byte written to it and without a pipeline, while the one that declared
\* 32 bytes is registered.
C11_Witness ==
    \E c, d \in Conns :
        /\ hello[c] = Name33 /\ srvClosed[c] /\ outbox[c] = << >>
        /\ rpc[c] = "none" /\ username[c] = NoName
        /\ hello[d] = Name32 /\ PipelineRunning(d)
        /\ connections = (Name32 :> d)

\* ---- C12
\* C12: protocol violation in the pipeline, as claimed. The pipeline's step
\* that decodes an envelope with len(To) > 32 or len(Content) > 2048 leaves
\* the loop (next: close, unregister) with nothing enqueued or written; the
\* step that decodes an envelope within both limits holds it for the push.
C12_ProtocolViolation ==
    [][\A c \in Conns :
          (/\ rpc[c] = "decode" /\ rpc'[c] # "decode"
           /\ inbox[c] # << >> /\ Head(inbox[c]) # Torn)
          => LET m == Head(inbox[c])
             IN  IF m.To.len > 32 \/ m.Content.len > 2048
                 THEN /\ rpc'[c] = "close"
                      /\ rmsg'[c] = NoMsg
                      /\ mq' = mq /\ outbox' = outbox
                 ELSE /\ rpc'[c] = "push"
                      /\ Wire(rmsg'[c]) =
                             Message(m.To, username[c], m.Content, m.Error)]_vars

\* ---- C13
\* C13: cleanup on pipeline exit, as claimed: under fair scheduling, once
\* the peer of a registered connection has disconnected, the connection's
\* name is eventually absent from the registry.
C13_Cleanup ==
    \A c \in Conns :
        (PipelineRunning(c) /\ hung[c]) ~> ~Present(username[c])

\* ---- C14
\* C14: backpressure without loss, as claimed: under fair scheduling every
\* envelope that passed the checks of a pipeline (the pipeline holds it for
\* the push) is eventually the envelope the router has dequeued.
C14_NoLoss ==
    \A k \in 1 .. MaxMsgs :
        (\E c \in Conns : rpc[c] = "push" /\ rmsg[c].n = k)
            ~> (qmsg # NoMsg /\ qmsg.n = k)

\* ---- C15
\* The places an envelope of connection c can be at, from the router back
\* to the peer: the router's hands, the channel, the pipeline's hands, the
\* stream not yet read. Each as << rank, index >>.
Places(c) ==
    (IF qmsg # NoMsg /\ qmsg.src = c THEN {<< 1, 1 >>} ELSE {})
        \cup {<< 2, i >> : i \in {j \in 1 .. Len(mq) : mq[j].src = c}}
        \cup (IF rmsg[c] # NoMsg THEN {<< 3, 1 >>} ELSE {})
        \cup {<< 4, i >> : i \in {j \in 1 .. Len(inbox[c]) : inbox[c][j] # Torn}}

\* The number (order of writing) of the envelope at a place.
TagAt(c, p) ==
    CASE p[1] = 1 -> qmsg.n
      [] p[1] = 2 -> mq[p[2]].n
      [] p[1] = 3 -> rmsg[c].n
      [] p[1] = 4 -> inbox[c][p[2]].n

\* Place p is nearer to the router than place q.
Ahead(p, q) == p[1] < q[1] \/ (p[1] = q[1] /\ p[2] < q[2])

C15_InOrder ==
    \A c \in Conns : \A p, q \in Places(c) :
        Ahead(p, q) => TagAt(c, p) < TagAt(c, q)

C15_Handling ==
    /\ (qpc = "recv" /\ RouterStep) =>
          /\ mq # << >> /\ qmsg' = Head(mq) /\ mq' = Tail(mq)
    /\ (qpc = "forward" /\ RouterStep /\ fatal' = fatal) =>
          outbox' = [outbox EXCEPT ![qconn] = Append(@, Wire(qmsg))]

WithinLimits(m) ==
    m.To.len <= MAX_USERNAME_LENGTH /\ m.Content.len <= MAX_MESSAGE_LENGTH

\* C16: stream decoding, as claimed. When the stream of a connection holds
\* envelopes within the limits and nothing else, a Decode of its pipeline
\* yields the first of them and leaves all the others in the stream.
C16_StreamDecoding ==
    [][\A c \in Conns :
          (/\ rpc[c] = "decode" /\ rpc'[c] # "decode"
           /\ inbox[c] # << >>
           /\ \A i \in 1 .. Len(inbox[c]) :
                 inbox[c][i] # Torn /\ WithinLimits(inbox[c][i]))
          => (/\ rpc'[c] = "push"
              /\ rmsg'[c].n = Head(inbox[c]).n
              /\ inbox'[c] = Tail(inbox[c]))]_vars

\* ---- C17
\* The envelopes the server makes itself: Message{"", "", text, true} with
\* one of the two texts.
ServerMade(e) ==
    /\ e.To = EmptyStr /\ e.From = EmptyStr
    /\ e.Content.id \in {"Username is taken", "is not connected"}

\* C17: error flag authenticity, as claimed: every envelope written to a
\* peer with Error = true is one the server made itself.
C17_ErrorFlagAuthentic ==
    \A c \in Conns : \A i \in 1 .. Len(outbox[c]) :
        outbox[c][i].Error => ServerMade(outbox[c][i])

\* ---- C18
\* The connections whose stream from the server changes in the step.
WrittenTo == {c \in Conns : outbox'[c] # outbox[c]}

C18_Handled ==
    /\ \A c \in WrittenTo :
          /\ Len(outbox'[c]) = Len(outbox[c]) + 1
          /\ SubSeq(outbox'[c], 1, Len(outbox[c])) = outbox[c]
    /\ Cardinality(WrittenTo) <= 1
    /\ (WrittenTo # {} /\ ~RouterStep) =>
          (lpc = "taken" /\ WrittenTo = {lcur}
              /\ outbox'[lcur][Len(outbox'[lcur])] = ErrorMessage(UsernameTaken))
    /\ (WrittenTo # {} /\ RouterStep) =>
          (qpc \in {"forward", "bounce"} /\ qpc' = "recv" /\ qmsg' = NoMsg)
    /\ (RouterStep /\ qpc = "lookup_to" /\ ~Present(qmsg.To)) =>
          (qpc' = "lookup_from" /\ qmsg' = qmsg)
    /\ (RouterStep /\ qpc \in {"lookup_from", "bounce"}) =>
          /\ qpc' \in {"bounce", "recv"} \/ fatal' # fatal
          /\ qpc' = "recv" => qmsg' = NoMsg
          /\ qpc' # "recv" => qmsg' = qmsg
          /\ \A c \in WrittenTo :
                outbox'[c][Len(outbox'[c])] = BounceMessage(qmsg)
    /\ (RouterStep /\ qpc = "recv") => mq' = Tail(mq)
    /\ (RouterStep /\ qpc # "recv") => mq' = mq
    /\ RouterStep => (rmsg' = rmsg /\ inbox' = inbox)

C18_Discarded == qpc = "recv" => (qmsg = NoMsg /\ qconn = 0)

\* C18: no deferred delivery. Every step writes at most one envelope to at
\* most one connection; the router writes only in its forward and bounce
\* steps and then holds no envelope; an envelope whose recipient was absent
\* at the router's lookup goes to the lookup of the sender and from there
\* is bounced or dropped, never forwarded, never put back in the channel or
\* in a pipeline; and the router waiting at the channel holds no envelope.
C18_NoDeferredDelivery == []C18_Discarded /\ [][C18_Handled]_vars

\* C18 witness: the envelope for "alice" was bounced to its sender while
\* "alice" was absent; "alice" has registered since and has received
\* nothing, and no envelope is left anywhere.
C18_Witness ==
    \E c, d \in Conns :
        /\ c # d
        /\ outbox[c] = << ErrorMessage(NotConnected(Alice)) >>
        /\ username[d] = Alice /\ rpc[d] = "decode" /\ ~srvClosed[d]
        /\ connections[Alice] = d
        /\ outbox[d] = << >>
        /\ qpc = "recv" /\ mq = << >> /\ rmsg[c] = NoMsg
        /\ inbox[c] = << >> /\ inbox[d] = << >>

\* ---- C19
C19_AbsentNoop ==
    \A n \in RegistryNames : ~Present(n) => Delete(n) = connections

C19_UnregisterStep ==
    \A c \in Conns :
        (rpc[c] = "delete" /\ rpc'[c] = "done") =>
            /\ ~Present(username[c]) => connections' = connections
            /\ ~Present(username[c])'
            /\ \A n \in DOMAIN connections \ {username[c]} :
                  Present(n)' /\ connections'[n] = connections[n]
            /\ Delete(username[c])' = connections'

\* C19: unregister idempotence. Removing a name that is absent leaves the
\* map as it is; a removal leaves the name absent and every other entry as
\* it was; and removing the name once more from the result gives the
\* result again.
C19_UnregisterIdempotent == []C19_AbsentNoop /\ [][C19_UnregisterStep]_vars

\* C19 witness: two connections with the same name have both run their
\* delete, the second on a map that no longer held the name, and the
\* other entries are still there.
C19_Witness ==
    /\ username[1] = username[2]
    /\ rpc[1] = "done" /\ rpc[2] = "done"
    /\ ~Present(username[1])
    /\ DOMAIN connections # {}

\* ---- C20
\* C20: full name read, as claimed: the name receive_connection returns
\* for a connection is the name its peer wrote.
C20_FullNameRead ==
    \A c \in Conns : username[c] # NoName => username[c] = hello[c]

\* ---- C21
\* C21: the registry holds only open connections, as claimed: no name is
\* mapped to a connection the server has closed, and the router never
\* stands before a write to a connection that its pipeline has closed.
C21_RegistryOpen ==
    /\ \A n \in DOMAIN connections : ~srvClosed[connections[n]]
    /\ qpc \in {"forward", "bounce"} =>
          ~(srvClosed[qconn] /\ rpc[qconn] \in {"delete", "done"})

\* ---- C22
\* C22: the bounce goes to the real sender, as claimed: the router's write
\* of the error envelope for an absent recipient goes to the connection
\* whose pipeline pushed the envelope, and to no other.
C22_BounceToSender ==
    [][(qpc = "bounce" /\ RouterStep) =>
          \A c \in WrittenTo : c = qmsg.src]_vars

\* ---- C23
C23_UnregisterStep ==
    \A c \in Conns :
        (rpc[c] = "delete" /\ rpc'[c] = "done") =>
            /\ Present(username[c])
            /\ connections[username[c]] = c
            /\ \A d \in Conns \ {c} : \A n \in DOMAIN connections :
                  connections[n] = d =>
                      (n \in DOMAIN connections' /\ connections'[n] = d)

\* C23: unregister removes only the pipeline's own entry. At the step in
\* which a pipeline runs its delete, the registry maps the pipeline's name
\* to the pipeline's own connection, and every entry of another connection
\* is still there after the step.
C23_UnregisterOwnEntry == [][C23_UnregisterStep]_vars

\* C23 witness: a pipeline has deleted its name after its peer left, the
\* same name was registered again by another connection, and that
\* registration stands.
C23_Witness ==
    \E c, d \in Conns :
        /\ c # d
        /\ username[c] = username[d]
        /\ rpc[c] = "done"
        /\ PipelineRunning(d) /\ ~srvClosed[d]
        /\ Present(username[d]) /\ connections[username[d]] = d

\* ---- C24
\* C24: admission progress, as claimed (the runs in which the process ends
\* left aside): under fair scheduling a peer that has written its whole
\* handshake and stays connected is eventually given a pipeline or turned
\* away, whatever the other peers do or fail to do.
C24_AdmissionProgress ==
    \A c \in Conns :
        (client[c] = "hello" /\ ~hung[c])
            ~> (rpc[c] # "none" \/ srvClosed[c] \/ hung[c] \/ ~Running)

\* ---- C25
\* The router has finished with the envelope it had dequeued, in one of the
\* three outcomes, and is back at the receive.
Handled ==
    /\ qpc = "recv" /\ qmsg = NoMsg
    /\ qlast \in {"forwarded", "bounced", "dropped"}

\* C25: router progress, as claimed (the runs in which the runtime ends
\* the process on a race left aside): under fair scheduling every envelope
\* in the channel is eventually dequeued, and every envelope the router has
\* dequeued is eventually handled in one of the three outcomes, the router
\* being back at the receive.
C25_RouterProgress ==
    \A k \in 1 .. MaxMsgs :
        /\ (\E i \in 1 .. Len(mq) : mq[i].n = k)
              ~> ((qmsg # NoMsg /\ qmsg.n = k) \/ fatal.by = "runtime")
        /\ (qmsg # NoMsg /\ qmsg.n = k)
              ~> (Handled \/ fatal.by = "runtime")

=============================================================================
